---- MODULE Spec2Model ----
(***************************************************************************)
(* REINFORCE training loop of experimental/reinforce/main.py: the rollout  *)
(* generator rollouts(), the per-iteration loop REINFORCE._train() and the *)
(* lazy generator REINFORCE.train(), driven by a consumer that calls       *)
(* next() on the generator.                                                *)
(*                                                                         *)
(* Numbers.  Rewards leaving the reward filter are fixed-point integers in *)
(* units of 1/Scale.  The discount factor is the rational                  *)
(* discount_num / DiscountDen, and a discounted return is kept as the      *)
(* exact numerator over the common denominator DiscountDen^(MaxSteps-1).   *)
(*                                                                         *)
(* The collaborators the source only calls are stubs.  The gym environment *)
(* is deterministic: its reward pattern and its episode lengths are fixed  *)
(* at construction; reset() and step() may raise.  The policy network      *)
(* returns a clipped output that depends on the observation and reaches    *)
(* the upper clip bound at most once.  The optimizer is a counter, theta,  *)
(* of the train_op runs.                                                   *)
(***************************************************************************)
EXTENDS Integers, Sequences, FiniteSets, TLC

\* ---- bounds of the model
MaxIters == 2
MaxEpisodes == 2
MaxSteps == 3
Scale == 10

\* ---- program constants
DiscountNum == 199
DiscountDen == 200
Clip == 5

VARIABLES
    pc,            \* position of the train() generator
    num_iters,     \* argument of train()
    config,        \* [discount_num, num_episodes]
    i,             \* loop variable of train()
    requests,      \* next() calls made by the consumer
    yielded,       \* loss lists delivered to the consumer, in order
    raised,        \* exception delivered to the consumer, "none" if none
    faults,        \* failing calls so far (env raised, or non-finite loss)
    episodes,      \* _train: episodes collected in this iteration
    losses,        \* _train: losses recorded in this iteration
    fed,           \* feed_dicts of the train_op runs of this iteration
    ue, uj,        \* _train: cursor of the two update loops
    theta,         \* number of train_op runs applied to the policy parameters
    saturated,     \* the network output has reached the upper clip bound
    trajectories,  \* rollouts: the list being built / last returned
    observ,        \* rollouts: current observation
    t,             \* rollouts: itertools.count() index
    raw_return,    \* rollouts: accumulator
    return_,       \* rollouts: accumulator (numerator, see above)
    rs,            \* reward filter running statistics
    seen,          \* every raw reward given to the filter, in order
    env            \* environment stub

vars == <<pc, num_iters, config, i, requests, yielded, raised, faults, episodes,
          losses, fed, ue, uj, theta, saturated, trajectories, observ, t, raw_return,
          return_, rs, seen, env>>

\* ------------------------------------------------------------------ numbers

RECURSIVE Pow(_, _)
Pow(b, e) == IF e = 0 THEN 1 ELSE b * Pow(b, e - 1)

RECURSIVE SqrtFrom(_, _)
SqrtFrom(k, v) == IF (k + 1) * (k + 1) > v THEN k ELSE SqrtFrom(k + 1, v)

\* floor of the square root
ISqrt(v) == SqrtFrom(0, v)

\* exponent of the common denominator of discounted returns
DenPow == MaxSteps - 1

\* ------------------------------------------------------------- reward filter

\* MeanStdFilter((), clip=5.) before its first call
InitFilter == [n |-> 0, sum |-> 0, sumsq |-> 0]

\* RunningStat.push: one more sample in the running mean / variance
Push(stat, x) ==
    [n |-> stat.n + 1, sum |-> stat.sum + x, sumsq |-> stat.sumsq + x * x]

ClipTo(z, bound) == IF z > bound THEN bound ELSE IF z < -bound THEN -bound ELSE z

\* (x - mean) / (std + eps), clipped to [-Clip, Clip], in units of 1/Scale;
\* stat already holds x.  With one sample, or a constant stream, x = mean and
\* the result is 0.
Normalize(stat, x) ==
    LET num    == stat.n * x - stat.sum               \* n * (x - mean)
        varnum == stat.n * stat.sumsq - stat.sum * stat.sum  \* n * S
        mag    == ISqrt((Scale * Scale * num * num * (stat.n - 1))
                        \div (stat.n * varnum))
    IN  IF num = 0 \/ stat.n <= 1 \/ varnum = 0 THEN 0
        ELSE ClipTo(IF num < 0 THEN -mag ELSE mag, Clip * Scale)

\* reward_filter(reward): push, then normalise with the updated statistics
FilterCall(stat, x) ==
    [rs |-> Push(stat, x), out |-> Normalize(Push(stat, x), x)]

\* statistics of a whole input history
RECURSIVE StatsOf(_)
StatsOf(xs) ==
    IF xs = <<>> THEN InitFilter
    ELSE Push(StatsOf(SubSeq(xs, 1, Len(xs) - 1)), xs[Len(xs)])

\* the filter's k-th output, recomputed from its input history
FilterOutAt(xs, k) == Normalize(StatsOf(SubSeq(xs, 1, k)), xs[k])

\* ---------------------------------------------------------------- policy

\* Policy.compute_action: tf.clip_by_value(x, -1., 1.) of the network's
\* output for the observation, one of -1 (lower bound), 0 (interior) and
\* 1 (upper bound); sat: the output is at or above the upper bound
ComputeAction(o, sat) == IF sat THEN 1 ELSE IF o % 2 = 0 THEN -1 ELSE 0

\* loss = -log(exp(softmax(model)) - exp(action)); softmax of the single
\* output is 1, so the argument of log is e - exp(action): 0 at action = 1,
\* where the loss is +Inf and check_numerics raises
LossIsFinite(action) == action < 1

\* -log(e - exp(action)) in thousandths, for a finite loss
Loss(action) == CASE action = -1 -> -854
                  [] action = 0  -> -541

\* ------------------------------------------------------------- environment

RewardPatterns == {"const", "alt"}

\* raw reward of the s-th step() call of the environment
EnvReward(pattern, s) == IF pattern = "const" THEN 1 ELSE s % 2

\* gym.make(...): nothing called yet
InitEnv(pattern, k0, stride) ==
    [pattern |-> pattern,
     K0 |-> k0,          \* length of the first episode, 0: never done
     stride |-> stride,  \* growth of the length from one episode to the next
     resets |-> 0,       \* reset() calls made
     steps |-> 0,        \* step() calls made
     stepFails |-> 0,    \* step() calls that raised
     resetFails |-> 0,   \* reset() calls that raised
     t |-> 0,            \* step() calls returned since the last reset()
     K |-> 0]            \* step() reports done on its K-th call after reset()

\* length of the r-th episode, 0: never done
Horizon(e, r) ==
    IF e.K0 = 0 THEN 0 ELSE 1 + ((e.K0 - 1 + e.stride * (r - 1)) % MaxSteps)

\* env.reset() that returns
EnvReset(e) ==
    [e EXCEPT !.resets = @ + 1, !.t = 0, !.K = Horizon(e, e.resets + 1)]

\* env.step(action) that returns
EnvStep(e) == [e EXCEPT !.steps = @ + 1, !.t = @ + 1]

\* env.reset() that raises
EnvResetFail(e) == [e EXCEPT !.resets = @ + 1, !.resetFails = @ + 1]

\* env.step(action) that raises
EnvStepFail(e) == [e EXCEPT !.steps = @ + 1, !.stepFails = @ + 1]

\* the observation an environment call returns: a fresh token
EnvObserv(e) == e.resets + e.steps

\* done flag of the step that led to e
EnvDone(e) == e.t = e.K

\* ------------------------------------------------------------------ program

\* range(n) walked one item too far
InRange_Inclusive(k, n) == k <= n

\* for _ in range(n): is there a next item after k items
InRange(k, n) == k < n

\* the exception caught and dropped where it arose
Raise_Swallowed(err) == pc' = pc /\ raised' = raised /\ faults' = faults + 1

\* an exception leaves rollouts, _train and train (no try/except anywhere)
\* and reaches the consumer's next()
Raise(err) == pc' = "failed" /\ raised' = err /\ faults' = faults + 1

\* "=" written for "+="
AccumulateRaw_Overwrite(acc, reward) == reward

\* raw_return += reward
AccumulateRaw(acc, reward) == acc + reward

\* "* discount_factor" written for "* discount_factor ** t"
DiscountedTerm_NoPower(reward, dnum, tt) ==
    reward * dnum * Pow(DiscountDen, DenPow - 1)

\* reward * config.discount_factor ** t, over DiscountDen^DenPow
DiscountedTerm(reward, dnum, tt) ==
    reward * Pow(dnum, tt) * Pow(DiscountDen, DenPow - tt)

\* return_ += reward * config.discount_factor ** t
AccumulateDiscounted(acc, reward, dnum, tt) ==
    acc + DiscountedTerm(reward, dnum, tt)

\* "break" outside the "if done:"
BreakLoop_Always(done, tt) == TRUE

\* a step budget of two added to the loop
BreakLoop_StepCap(done, tt) == done \/ tt + 1 >= 2

\* if done: break (tt is the loop index, which the test does not read)
BreakLoop(done, tt) == done

\* the filter only updated, its result dropped: the raw reward is recorded
AdjustReward_Unfiltered(stat, raw) == [rs |-> Push(stat, raw), out |-> raw * Scale]

\* reward = reward_filter(reward)
AdjustReward(stat, raw) == FilterCall(stat, raw)

\* a new filter made for every rollout
RolloutFilter_Fresh(stat) == InitFilter

\* the filter _train hands to rollouts(): self.reward_filter, made once in
\* _init
RolloutFilter(stat) == stat

\* the list stored and the loop carried on, without waiting for the consumer
Yield_Eager(ls) == pc' = "collect" /\ yielded' = Append(yielded, ls)

\* yield losses: the list reaches the consumer and the generator is suspended
Yield(ls) == pc' = "yielded" /\ yielded' = Append(yielded, ls)

Trajectory(o, r, d, a, no, rr, ret) ==
    [observ |-> o, reward |-> r, done |-> d, action |-> a, next_observ |-> no,
     raw_return |-> rr, return_ |-> ret]

\* only episode[0] of every episode used
NextCursor_FirstOnly(eps, e, j) == <<e + 1, 1>>

\* cursor of "for episode in episodes: for trajectory in episode" after the
\* item at <<e, j>>
NextCursor(eps, e, j) == IF j < Len(eps[e]) THEN <<e, j + 1>> ELSE <<e + 1, 1>>

rolloutVars == <<trajectories, observ, t, raw_return, return_>>
trainVars == <<episodes, losses, fed, ue, uj>>
consumerVars == <<num_iters, config, i, requests, yielded>>

Init ==
    /\ pc = "created"
    /\ num_iters \in 0..MaxIters
    /\ config \in [discount_num : {DiscountNum, DiscountDen},
                   num_episodes : 1..MaxEpisodes]
    /\ i = 0
    /\ requests = 0
    /\ yielded = <<>>
    /\ raised = "none"
    /\ faults = 0
    /\ episodes = <<>>
    /\ losses = <<>>
    /\ fed = <<>>
    /\ ue = 1
    /\ uj = 1
    /\ theta = 0
    /\ saturated = FALSE
    /\ trajectories = <<>>
    /\ observ = 0
    /\ t = 0
    /\ raw_return = 0
    /\ return_ = 0
    /\ rs = InitFilter
    /\ seen = <<>>
    /\ \E p \in RewardPatterns, k0 \in 0..MaxSteps, stride \in {0, 1} :
         /\ k0 = 0 => stride = 0
         /\ env = InitEnv(p, k0, stride)

\* the consumer calls next(): the generator starts, or resumes after its
\* yield, and runs to the loop test of train(); a further iteration enters
\* _train (episodes = [])
ConsumerNext ==
    /\ pc \in {"created", "yielded"}
    /\ requests' = requests + 1
    /\ i' = IF pc = "created" THEN 0 ELSE i + 1
    /\ IF InRange(i', num_iters)
       THEN /\ pc' = "collect"
            /\ episodes' = <<>>
            /\ losses' = <<>>
            /\ fed' = <<>>
            /\ ue' = 1
            /\ uj' = 1
       ELSE /\ pc' = "exhausted"
            /\ UNCHANGED trainVars
    /\ UNCHANGED <<num_iters, config, yielded, raised, faults, theta, saturated,
                   rs, seen, env>>
    /\ UNCHANGED rolloutVars

\* _train calls rollouts(): accumulators zeroed, env.reset() returns
StartRollout ==
    /\ pc = "collect"
    /\ InRange(Len(episodes), config.num_episodes)
    /\ env' = EnvReset(env)
    /\ raw_return' = 0
    /\ return_' = 0
    /\ observ' = EnvObserv(env')
    /\ trajectories' = <<>>
    /\ t' = 0
    /\ pc' = "rollout"
    /\ rs' = RolloutFilter(rs)
    /\ UNCHANGED <<raised, faults, theta, saturated, seen>>
    /\ UNCHANGED trainVars
    /\ UNCHANGED consumerVars

\* env.reset() raises
EnvResetRaises ==
    /\ pc = "collect"
    /\ InRange(Len(episodes), config.num_episodes)
    /\ env' = EnvResetFail(env)
    /\ Raise("EnvironmentError")
    /\ UNCHANGED <<theta, saturated, rs, seen>>
    /\ UNCHANGED rolloutVars
    /\ UNCHANGED trainVars
    /\ UNCHANGED consumerVars

\* one pass of the loop of rollouts(); on done the list is returned and
\* _train appends it to episodes
RolloutStep ==
    /\ pc = "rollout"
    /\ t < MaxSteps
    /\ \E sat \in IF saturated THEN {FALSE} ELSE BOOLEAN :
         LET action      == ComputeAction(observ, sat)
             e2          == EnvStep(env)
             raw         == EnvReward(env.pattern, e2.steps)
             next_observ == EnvObserv(e2)
             done        == EnvDone(e2)
             f           == AdjustReward(rs, raw)
             reward      == f.out
             rr          == AccumulateRaw(raw_return, reward)
             ret         == AccumulateDiscounted(return_, reward,
                                                 config.discount_num, t)
         IN  /\ env' = e2
             /\ rs' = f.rs
             /\ seen' = Append(seen, raw)
             /\ raw_return' = rr
             /\ return_' = ret
             /\ trajectories' = Append(trajectories,
                    Trajectory(observ, reward, done, action, next_observ, rr, ret))
             /\ observ' = next_observ
             /\ saturated' = (saturated \/ sat)
             /\ IF BreakLoop(done, t)
                THEN /\ pc' = "collect"
                     /\ episodes' = Append(episodes, trajectories')
                     /\ t' = t
                ELSE /\ pc' = "rollout"
                     /\ episodes' = episodes
                     /\ t' = t + 1
    /\ UNCHANGED <<raised, faults, theta, losses, fed, ue, uj>>
    /\ UNCHANGED consumerVars

\* env.step() raises
EnvStepRaises ==
    /\ pc = "rollout"
    /\ t < MaxSteps
    /\ env' = EnvStepFail(env)
    /\ Raise("EnvironmentError")
    /\ UNCHANGED <<theta, saturated, rs, seen>>
    /\ UNCHANGED rolloutVars
    /\ UNCHANGED trainVars
    /\ UNCHANGED consumerVars

\* the episode loop of _train is over: losses = []
StartUpdates ==
    /\ pc = "collect"
    /\ ~InRange(Len(episodes), config.num_episodes)
    /\ losses' = <<>>
    /\ ue' = 1
    /\ uj' = 1
    /\ pc' = "update"
    /\ UNCHANGED <<raised, faults, theta, saturated, rs, seen, env, episodes,
                   fed>>
    /\ UNCHANGED rolloutVars
    /\ UNCHANGED consumerVars

\* sess.run([train_op, loss]) on one trajectory; after the last one _train
\* returns losses and train yields them
Update ==
    /\ pc = "update"
    /\ LET trajectory == episodes[ue][uj]
           next       == NextCursor(episodes, ue, uj)
       IN  /\ LossIsFinite(trajectory.action)
           /\ theta' = theta + 1
           /\ fed' = Append(fed, [observ |-> trajectory.observ,
                                  action |-> trajectory.action])
           /\ losses' = Append(losses, Loss(trajectory.action))
           /\ ue' = next[1]
           /\ uj' = next[2]
           /\ IF InRange(next[1] - 1, Len(episodes))
              THEN pc' = "update" /\ yielded' = yielded
              ELSE Yield(losses')
    /\ UNCHANGED <<num_iters, config, i, requests, raised, faults, saturated,
                   rs, seen, env, episodes>>
    /\ UNCHANGED rolloutVars

\* sess.run raises: check_numerics found the loss non-finite; theta counts
\* the runs that completed
UpdateRaises ==
    /\ pc = "update"
    /\ LET trajectory == episodes[ue][uj]
       IN  /\ ~LossIsFinite(trajectory.action)
           /\ fed' = Append(fed, [observ |-> trajectory.observ,
                                  action |-> trajectory.action])
    /\ Raise("NumericError")
    /\ UNCHANGED <<theta, saturated, rs, seen, env, episodes, losses, ue, uj>>
    /\ UNCHANGED rolloutVars
    /\ UNCHANGED consumerVars

Next ==
    \/ ConsumerNext
    \/ StartRollout
    \/ EnvResetRaises
    \/ RolloutStep
    \/ EnvStepRaises
    \/ StartUpdates
    \/ Update
    \/ UpdateRaises

Spec == Init /\ [][Next]_vars

\* Termination does not read the numbers: for it the default discount factor
\* and the alternating reward pattern stand for the others.
InitFair ==
    Init /\ config.discount_num = DiscountNum /\ env.pattern = "alt"

\* the code is one synchronous thread and the consumer keeps calling next():
\* whatever step is due is taken
FairSpec == InitFair /\ [][Next]_vars /\ WF_vars(Next)

\* ------------------------------------------------------------------ claims

RECURSIVE Flatten(_)
Flatten(eps) ==
    IF eps = <<>> THEN <<>>
    ELSE Flatten(SubSeq(eps, 1, Len(eps) - 1)) \o eps[Len(eps)]

RECURSIVE TotalLen(_)
TotalLen(ls) ==
    IF ls = <<>> THEN 0 ELSE TotalLen(SubSeq(ls, 1, Len(ls) - 1)) + Len(ls[Len(ls)])

\* the last call of rollouts() has returned its list to _train
RolloutReturned == pc \in {"collect", "update", "yielded"} /\ episodes # <<>>

DoneOnlyLast(tr) == \A k \in 1..Len(tr) : tr[k].done <=> (k = Len(tr))

InStepOrder(tr) ==
    /\ \A k \in 1..Len(tr) : tr[k].next_observ = tr[k].observ + 1
    /\ \A k \in 1..(Len(tr) - 1) : tr[k + 1].observ = tr[k].next_observ

\* C1: against an environment whose step() first reports done on its K-th
\* call, rollouts() returns exactly K records in step order, done true on the
\* last and false before it; step() is called exactly K times and never after
\* the call that reported done.
C1_RolloutLength ==
    /\ env.K > 0 => env.t <= env.K
    /\ RolloutReturned =>
         LET ep == episodes[Len(episodes)]
         IN  /\ ep = trajectories
             /\ Len(ep) = env.K
             /\ env.t = env.K
             /\ DoneOnlyLast(ep)
             /\ InStepOrder(ep)
             /\ ep[Len(ep)].next_observ = EnvObserv(env)

C1_Witness ==
    /\ RolloutReturned
    /\ env.K = MaxSteps
    /\ Len(trajectories) = MaxSteps
    /\ Len(episodes) = 2

RawReturnChain(tr) ==
    \A k \in 1..Len(tr) :
        tr[k].raw_return = (IF k = 1 THEN 0 ELSE tr[k - 1].raw_return) + tr[k].reward

\* C2: raw_return[0] = reward[0] and raw_return[t] = raw_return[t-1] +
\* reward[t], reward[t] being the filter's output for the t-th step (not the
\* environment's raw reward); the accumulator starts at 0 in every rollout.
C2_RawReturn ==
    /\ RawReturnChain(trajectories)
    /\ \A e \in 1..Len(episodes) : RawReturnChain(episodes[e])
    /\ \A k \in 1..Len(trajectories) :
         trajectories[k].reward =
             FilterOutAt(seen, Len(seen) - Len(trajectories) + k)

\* a second rollout that starts after a first one ended on a non-zero total,
\* with a recorded reward that is not the raw reward
C2_Witness ==
    /\ Len(episodes) = 2
    /\ episodes[1][Len(episodes[1])].raw_return # 0
    /\ episodes[2][1].reward # 0
    /\ episodes[2][1].reward # Scale * seen[Len(episodes[1]) + 1]

RECURSIVE DiscountedSum(_, _, _)
DiscountedSum(tr, k, dnum) ==
    IF k = 0 THEN 0
    ELSE DiscountedSum(tr, k - 1, dnum)
         + tr[k].reward * Pow(dnum, k - 1) * Pow(DiscountDen, DenPow - (k - 1))

DiscountedOK(tr) ==
    \A k \in 1..Len(tr) :
        /\ tr[k].return_ = DiscountedSum(tr, k, config.discount_num)
        /\ config.discount_num = DiscountDen =>
               tr[k].return_ = tr[k].raw_return * Pow(DiscountDen, DenPow)

\* C3: the discounted return stored at step t is the sum over i = 0..t of
\* reward[i] * discount_factor^i, i counted from 0 at the first step after
\* reset; with discount_factor = 1 it equals raw_return at every step.
C3_DiscountedReturn ==
    /\ DiscountedOK(trajectories)
    /\ \A e \in 1..Len(episodes) : DiscountedOK(episodes[e])

C3_Witness ==
    /\ RolloutReturned
    /\ Len(trajectories) = MaxSteps
    /\ trajectories[1].reward # 0
    /\ trajectories[MaxSteps].reward # 0
    /\ config.discount_num = DiscountNum
    /\ trajectories[MaxSteps].return_ #
           trajectories[MaxSteps].raw_return * Pow(DiscountDen, DenPow)

\* C4: train(0) yields nothing and touches nothing: no loss list, no
\* env.reset, no env.step, no filter call, no train_op run.
C4_TrainZero ==
    num_iters = 0 =>
        /\ pc \in {"created", "exhausted"}
        /\ yielded = <<>>
        /\ raised = "none"
        /\ env.resets = 0
        /\ env.steps = 0
        /\ rs = InitFilter
        /\ seen = <<>>
        /\ theta = 0
        /\ fed = <<>>

C4_Witness == num_iters = 0 /\ pc = "exhausted" /\ requests = 1

FeedOf(tr) == [observ |-> tr.observ, action |-> tr.action]

\* C5: in an iteration, num_episodes rollouts are collected before the first
\* update, so all are sampled with the same parameters; then one train_op run
\* per recorded Trajectory, in episode order and step order, fed that step's
\* observation and action; the loss list is as long as the episodes together.
C5_TrainIteration ==
    LET flat == Flatten(episodes)
    IN  /\ Len(episodes) <= config.num_episodes
        /\ pc \in {"collect", "rollout"} => fed = <<>> /\ losses = <<>>
        /\ pc \in {"update", "yielded"} => Len(episodes) = config.num_episodes
        /\ pc # "failed" =>
               theta = TotalLen(yielded) + (IF pc = "update" THEN Len(losses) ELSE 0)
        /\ Len(fed) <= Len(flat)
        /\ \A k \in 1..Len(fed) : fed[k] = FeedOf(flat[k])
        /\ Len(losses) <= Len(fed)
        /\ pc # "failed" => Len(losses) = Len(fed)
        /\ \A k \in 1..Len(losses) : losses[k] = Loss(flat[k].action)
        /\ pc = "yielded" =>
               /\ Len(losses) = Len(flat)
               /\ yielded[Len(yielded)] = losses

C5_Witness ==
    /\ pc = "yielded"
    /\ Len(episodes) = 2
    /\ Len(episodes[1]) # Len(episodes[2])
    /\ Len(losses) >= 3
    /\ \E k \in 1..(Len(losses) - 1) : losses[k] # losses[k + 1]

Finished == pc \in {"exhausted", "failed"}

\* C6: consuming train(n) yields exactly n loss lists and then ends; nothing
\* touches the environment or the parameters before the first next(), and
\* iteration i (from 0) works only once i lists have been yielded and the
\* consumer has made its (i+1)-th request.
C6_LazyTrain ==
    /\ [](pc = "created" =>
              env.resets = 0 /\ env.steps = 0 /\ theta = 0 /\ rs = InitFilter)
    /\ [](Len(yielded) <= num_iters)
    /\ [](pc = "exhausted" =>
              Len(yielded) = num_iters /\ requests = num_iters + 1)
    /\ [](pc = "yielded" => Len(yielded) = requests)
    /\ [][(env' # env \/ theta' # theta \/ rs' # rs) =>
              (Len(yielded) = i /\ requests = i + 1 /\ i < num_iters)]_vars

\* the second iteration at work, after the first list was delivered
C6_Witness ==
    /\ pc = "update"
    /\ i = 1
    /\ Len(yielded) = 1
    /\ requests = 2
    /\ theta > Len(yielded[1])

\* C7: a raising env.reset / env.step or a non-finite loss reaches the
\* consumer; no loss list is yielded for the failing iteration, also not the
\* losses it had recorded, nor for a later one; the failing call is not
\* repeated and nothing touches the environment or the parameters afterwards.
C7_FailFast ==
    /\ [](faults > 0 =>
              /\ pc = "failed"
              /\ raised # "none"
              /\ faults = 1
              /\ Len(yielded) = i
              /\ i < num_iters)
    /\ [](faults = env.resetFails + env.stepFails
                   + (IF raised = "NumericError" THEN 1 ELSE 0))
    /\ [](raised = "NumericError" => ~LossIsFinite(episodes[ue][uj].action))
    /\ [](pc = "failed" <=> raised # "none")
    /\ [][pc = "failed" =>
              (env' = env /\ theta' = theta /\ yielded' = yielded /\ rs' = rs
               /\ pc' = "failed" /\ raised' = raised)]_vars

\* a non-finite loss in the second iteration, after losses were recorded in it
C7_Witness ==
    /\ pc = "failed"
    /\ raised = "NumericError"
    /\ losses # <<>>
    /\ i = 1
    /\ Len(yielded) = 1

\* discount_factor = 0.995, every step() returns reward 1, done on the third
\* call; rollouts() has returned
C8_Scenario ==
    /\ config.discount_num = DiscountNum
    /\ env.pattern = "const"
    /\ env.K = 3
    /\ RolloutReturned

\* C8 as stated: the trajectory has length 3, raw_return = [1, 2, 3] and the
\* discounted return at index 2 is 1 + 0.995 + 0.995^2.
C8_AsStated ==
    C8_Scenario =>
        /\ Len(trajectories) = 3
        /\ \A k \in 1..3 : trajectories[k].raw_return = k * Scale
        /\ trajectories[3].return_ =
               Scale * (DiscountDen * DiscountDen + DiscountNum * DiscountDen
                        + DiscountNum * DiscountNum) * Pow(DiscountDen, DenPow - 2)

\* C8 (amended): in that scenario the trajectory has length 3 and its
\* raw_return values are the running sums of the rewards the filter returned;
\* the filter maps a constant stream to 0, so reward = [0, 0, 0],
\* raw_return = [0, 0, 0] and the discounted return at index 2 is 0.
C8_FilteredScenario ==
    C8_Scenario =>
        /\ Len(trajectories) = 3
        /\ \A k \in 1..3 :
             /\ trajectories[k].reward =
                    FilterOutAt(seen, Len(seen) - 3 + k)
             /\ trajectories[k].reward = 0
             /\ trajectories[k].raw_return = 0
        /\ trajectories[3].return_ = 0

C8_Witness ==
    /\ C8_Scenario
    /\ Len(trajectories) = 3
    /\ \A k \in 1..3 : seen[Len(seen) - 3 + k] = 1

\* C9: rollouts() has no step cap.  A step that reports done is the last of
\* its rollout, which returns at once, and no rollout returns otherwise; so
\* when every episode terminates, every train(n) finishes.  When no step
\* reports done, the rollout never returns and goes on calling env.step (here
\* up to the step bound of the model) unless the environment raises.
C9_Termination ==
    /\ <>(Finished \/ (env.K0 = 0 /\ pc = "rollout" /\ env.t = MaxSteps))
    /\ [][pc = "rollout" =>
            /\ (pc' = "collect" <=> (trajectories' # trajectories
                                     /\ trajectories'[Len(trajectories')].done))
            /\ pc' = "collect" =>
                   /\ Len(trajectories') = Len(trajectories) + 1
                   /\ episodes' = Append(episodes, trajectories')]_vars
    /\ [](env.K0 = 0 =>
            /\ episodes = <<>>
            /\ pc \notin {"update", "yielded"}
            /\ (pc = "exhausted" => num_iters = 0)
            /\ (pc = "rollout" => Len(trajectories) = t /\ env.t = t))

\* an endless episode at the step bound of the model, still in its loop
C9_Witness ==
    /\ env.K0 = 0
    /\ pc = "rollout"
    /\ t = MaxSteps
    /\ Len(trajectories) = MaxSteps

\* C10: the reward filter is created once and never reset or replaced; it is
\* called once per env.step that returned, in step order, so its sample count
\* is the number of those calls, and the first reward of a rollout is
\* normalised with the statistics of every reward of all earlier rollouts and
\* iterations.
C10_FilterLifetime ==
    /\ rs = StatsOf(seen)
    /\ rs.n = env.steps - env.stepFails
    /\ faults = 0 => rs.n = env.steps
    /\ \A k \in 1..Len(seen) : seen[k] = EnvReward(env.pattern, k)
    /\ trajectories # <<>> =>
         LET first == Len(seen) - Len(trajectories) + 1
         IN  trajectories[1].reward =
                 Normalize(StatsOf(SubSeq(seen, 1, first)), seen[first])

\* the first reward of a rollout of the second iteration, not what a new
\* filter would return
C10_Witness ==
    /\ i = 1
    /\ pc = "rollout"
    /\ Len(trajectories) = 1
    /\ rs.n > 1
    /\ trajectories[1].reward # 0

====
